---- MODULE Spec2Model ----
(***************************************************************************)
(* gracevisord: the per-application instance lifecycle engine and the      *)
(* traffic-switching reverse proxy (type App of gracevisord).              *)
(*                                                                         *)
(* The App code (updater loop, reserveInstance, StartNewInstance,          *)
(* ServeHTTP) is translated statement by statement; every read or write of *)
(* shared memory that the code performs outside activeInstanceLock is a    *)
(* step of its own, so that the interleavings the Go scheduler allows are  *)
(* all explored.  Instance and PortPool are not part of the source tree;   *)
(* their operations follow the written design (sections 4.1 and 4.2).      *)
(***************************************************************************)
EXTENDS Integers, Sequences, FiniteSets

\* ---- bounds of the model ------------------------------------------------
MaxInstances == 2       \* instance ids handed out by the instanceId counter
MaxRequests == 2        \* external HTTP requests, each served once
NumPorts == 2           \* size of the configured internal port range

Requests == 1..MaxRequests
Ids == 1..MaxInstances
Ports == 1..NumPorts
Callers == {"c1", "c2"}                 \* threads calling StartNewInstance
Free == <<"free", 0>>                   \* activeInstanceLock not held
Updater == <<"updater", 0>>             \* ... held by the updater goroutine
Holder(r) == <<"request", r>>           \* ... held by the goroutine of request r

Nil == 0                                \* the nil *Instance

InstanceStatusNone == "None"            \* id not handed out yet
InstanceStatusStarting == "Starting"
InstanceStatusServing == "Serving"
InstanceStatusStopping == "Stopping"
InstanceStatusStopped == "Stopped"
InstanceStatusFailed == "Failed"
InstanceStatusExited == "Exited"

Terminal == {InstanceStatusStopped, InstanceStatusFailed, InstanceStatusExited}
Probes == {"ok", "retry", "fail"}       \* outcome of one health probe
Outcomes == {"ok", "proxyerror", "panic"} \* how the proxied exchange ends

VARIABLES
    instances,        \* App.instances: sequence of instance ids, oldest first
    activeInstance,   \* App.activeInstance: an id or Nil
    lock,             \* App.activeInstanceLock: Free or its holder
    instanceId,       \* App.instanceId
    inst,             \* the Instance objects, by id
    freePorts,        \* PortPool: the free set
    upd,              \* the updater goroutine: position and locals
    call,             \* StartNewInstance callers: position and locals
    req,              \* ServeHTTP goroutines: position, locals, observations
    hist              \* history: the outage opened by the exit of the active instance

vars == <<instances, activeInstance, lock, instanceId, inst, freePorts, upd, call, req, hist>>

\* ---- Instance (design section 4.2) ---------------------------------------
NoInstance ==
    [status |-> InstanceStatusNone, inFlight |-> 0, alive |-> FALSE,
     port |-> 0, signalled |-> FALSE, stops |-> 0, released |-> 0, killed |-> "no"]

\* Serve(): fails fast when the instance is not Serving, else counts the request.
ServeFails(ins, i) == ins[i].status # InstanceStatusServing

Serve(ins, i) ==
    IF ServeFails(ins, i) THEN ins
    ELSE [ins EXCEPT ![i].inFlight = @ + 1]

\* Done(): decrements; a Stopping instance whose count reaches zero signals its child.
Done(ins, i) ==
    LET n == ins[i].inFlight - 1 IN
    [ins EXCEPT ![i].inFlight = n,
                ![i].signalled = @ \/ (ins[i].status = InstanceStatusStopping /\ n = 0)]

\* Stop(): idempotent; Starting|Serving -> Stopping; the stop signal is deferred
\* until inFlight is zero.
Stop(ins, i) ==
    IF ins[i].status \in {InstanceStatusStarting, InstanceStatusServing}
    THEN [ins EXCEPT ![i].status = InstanceStatusStopping,
                     ![i].signalled = (ins[i].inFlight = 0),
                     ![i].stops = 1]
    ELSE [ins EXCEPT ![i].stops = 1]

\* a Stopping instance whose child is gone becomes Stopped whatever its inFlight
NextStatus_NoDrain(rec, probe) ==
    CASE rec.status = InstanceStatusStarting /\ ~rec.alive -> InstanceStatusFailed
      [] rec.status = InstanceStatusStarting /\ probe = "ok" -> InstanceStatusServing
      [] rec.status = InstanceStatusStarting /\ probe = "fail" -> InstanceStatusFailed
      [] rec.status = InstanceStatusServing /\ ~rec.alive -> InstanceStatusExited
      [] rec.status = InstanceStatusStopping /\ ~rec.alive -> InstanceStatusStopped
      [] OTHER -> rec.status

\* The status UpdateStatus() moves the instance to, given one probe outcome.
NextStatus(rec, probe) ==
    CASE rec.status = InstanceStatusStarting /\ ~rec.alive -> InstanceStatusFailed
      [] rec.status = InstanceStatusStarting /\ probe = "ok" -> InstanceStatusServing
      [] rec.status = InstanceStatusStarting /\ probe = "fail" -> InstanceStatusFailed
      [] rec.status = InstanceStatusServing /\ ~rec.alive -> InstanceStatusExited
      [] rec.status = InstanceStatusStopping /\ ~rec.alive /\ rec.inFlight = 0
            -> InstanceStatusStopped
      [] OTHER -> rec.status

\* UpdateStatus(): drives the probe, reaps the child; returns the status it leaves.
UpdateStatus(ins, i, probe) ==
    [ins EXCEPT ![i].status = NextStatus(ins[i], probe)]

\* the port handed back on every call that finds or leaves the instance terminal
Released_EveryCall(ins, i, probe) ==
    IF NextStatus(ins[i], probe) \in Terminal THEN {ins[i].port} ELSE {}

\* The port UpdateStatus() hands back to the pool on a terminal transition.
Released(ins, i, probe) ==
    IF ins[i].status \notin Terminal /\ NextStatus(ins[i], probe) \in Terminal
    THEN {ins[i].port} ELSE {}

\* PortPool.reserve(): the lowest-numbered free port
Reserve(free) == CHOOSE p \in free : \A q \in free : p <= q

\* NewInstance(): a Starting instance with a live child on the reserved port.
NewInstance(p) ==
    [status |-> InstanceStatusStarting, inFlight |-> 0, alive |-> TRUE,
     port |-> p, signalled |-> FALSE, stops |-> 0, released |-> 0, killed |-> "no"]

\* ---- initial state: NewApp ------------------------------------------------
IdleUpd == [pc |-> "tick", snap |-> <<>>, idx |-> 0, status |-> InstanceStatusNone,
            cur |-> Nil]
IdleCall == [pc |-> "idle", snap |-> <<>>, idx |-> 0, new |-> Nil, base |-> <<>>,
             err |-> FALSE, stopped |-> {}]
IdleReq == [pc |-> "new", inst |-> Nil, err |-> FALSE, served |-> Nil,
            servedStatus |-> InstanceStatusNone, counted |-> 0, dones |-> 0,
            resp |-> 0, closed |-> FALSE, proxied |-> Nil, afterClear |-> FALSE]

\* no active instance has exited yet
NoOutage == [outage |-> FALSE, nextId |-> 0]

Init ==
    /\ instances = <<>>
    /\ activeInstance = Nil
    /\ lock = Free
    /\ instanceId = 0
    /\ inst = [i \in Ids |-> NoInstance]
    /\ \E n \in 1..NumPorts : freePorts = 1..n
    /\ upd = IdleUpd
    /\ call = [c \in Callers |-> IdleCall]
    /\ req = [r \in Requests |-> IdleReq]
    /\ hist = NoOutage

\* ---- the updater loop: App.startInstanceUpdater --------------------------
\* line 120: the next element of the ranged slice, or the end of the pass
Advance(u) ==
    IF u.idx < Len(u.snap)
    THEN [u EXCEPT !.pc = "update", !.idx = u.idx + 1, !.status = InstanceStatusNone,
                   !.cur = Nil]
    ELSE [u EXCEPT !.pc = "tick", !.idx = 0, !.snap = <<>>,
                   !.status = InstanceStatusNone, !.cur = Nil]

\* the promotion condition without the comparison to the active instance
ShouldPromote_AnyServing(status, instance, active) ==
    status = InstanceStatusServing

\* line 122: the promotion condition
ShouldPromote(status, instance, active) ==
    status = InstanceStatusServing /\ instance # active

\* the clearing condition with the comparison to the active instance inverted
ShouldClear_NotActive(status, instance, active) ==
    status = InstanceStatusExited /\ instance # active

\* line 131: the clearing condition
ShouldClear(status, instance, active) ==
    status = InstanceStatusExited

\* lines 135-136 then 120: Report(), wait for the tick, range over a.instances
UTick ==
    /\ upd.pc = "tick"
    /\ upd' = Advance([upd EXCEPT !.snap = instances, !.idx = 0])
    /\ UNCHANGED <<instances, activeInstance, lock, instanceId, inst, freePorts, call, req, hist>>

\* line 121: status := instance.UpdateStatus()
UUpdate ==
    /\ upd.pc = "update"
    /\ \E probe \in Probes :
        LET i == upd.snap[upd.idx] IN
        /\ inst' = [UpdateStatus(inst, i, probe) EXCEPT
                        ![i].released = @ + Cardinality(Released(inst, i, probe))]
        /\ freePorts' = freePorts \cup Released(inst, i, probe)
        /\ upd' = [upd EXCEPT !.pc = "branch", !.status = inst'[i].status]
    /\ UNCHANGED <<instances, activeInstance, lock, instanceId, call, req, hist>>

\* lines 122-123, 131-133: the branch; promotion goes on to Lock(), the
\* clearing write takes no lock
UBranch ==
    /\ upd.pc = "branch"
    /\ LET i == upd.snap[upd.idx] IN
       IF ShouldPromote(upd.status, i, activeInstance)
       THEN /\ lock = Free
            /\ lock' = Updater
            /\ upd' = [upd EXCEPT !.pc = "swap"]
            /\ UNCHANGED <<activeInstance, hist>>
       ELSE IF ShouldClear(upd.status, i, activeInstance)
       THEN /\ activeInstance' = Nil
            /\ upd' = Advance(upd)
            /\ hist' = IF i = activeInstance
                       THEN [outage |-> TRUE, nextId |-> instanceId]
                       ELSE hist
            /\ UNCHANGED lock
       ELSE /\ upd' = Advance(upd)
            /\ UNCHANGED <<activeInstance, lock, hist>>
    /\ UNCHANGED <<instances, instanceId, inst, freePorts, call, req>>

\* lines 124-126: read the prior active, write the new one, unlock
USwap ==
    /\ upd.pc = "swap"
    /\ activeInstance' = upd.snap[upd.idx]
    /\ lock' = Free
    /\ upd' = [upd EXCEPT !.pc = "stop", !.cur = activeInstance]
    /\ hist' = [hist EXCEPT !.outage = FALSE]
    /\ UNCHANGED <<instances, instanceId, inst, freePorts, call, req>>

\* the prior active is dropped without Stop()
UStop_NoStop ==
    /\ upd.pc = "stop"
    /\ upd' = Advance(upd)
    /\ UNCHANGED <<instances, activeInstance, lock, instanceId, inst, freePorts, call, req, hist>>

\* lines 128-130: Stop() on the prior active, outside the lock
UStop ==
    /\ upd.pc = "stop"
    /\ inst' = IF upd.cur # Nil THEN Stop(inst, upd.cur) ELSE inst
    /\ upd' = Advance(upd)
    /\ UNCHANGED <<instances, activeInstance, lock, instanceId, freePorts, call, req, hist>>

\* ---- App.StartNewInstance --------------------------------------------------
\* line 155: the next element of the ranged slice, or on to NewInstance
CAdvance(k) ==
    IF k.idx < Len(k.snap)
    THEN [k EXCEPT !.pc = "check", !.idx = k.idx + 1]
    ELSE [k EXCEPT !.pc = "new", !.idx = 0, !.snap = <<>>]

\* callers that are past the call but have not taken their id yet
Pending == {c \in Callers : call[c].pc \in {"check", "stop", "new"}}

\* line 155: range over a.instances (the slice header is read once)
SNIStart(c) ==
    /\ call[c].pc = "idle"
    /\ instanceId + Cardinality(Pending) < MaxInstances
    /\ call' = [call EXCEPT ![c] =
                  CAdvance([IdleCall EXCEPT !.snap = instances])]
    /\ UNCHANGED <<instances, activeInstance, lock, instanceId, inst, freePorts, upd, req, hist>>

\* line 156: if instance.status == InstanceStatusStarting
SNICheck(c) ==
    /\ call[c].pc = "check"
    /\ LET i == call[c].snap[call[c].idx] IN
       call' = [call EXCEPT ![c] =
                  IF inst[i].status = InstanceStatusStarting
                  THEN [@ EXCEPT !.pc = "stop"]
                  ELSE CAdvance(@)]
    /\ UNCHANGED <<instances, activeInstance, lock, instanceId, inst, freePorts, upd, req, hist>>

\* line 157: instance.Stop()
SNIStop(c) ==
    /\ call[c].pc = "stop"
    /\ LET i == call[c].snap[call[c].idx] IN
       /\ inst' = Stop(inst, i)
       /\ call' = [call EXCEPT ![c] =
                     CAdvance([@ EXCEPT !.stopped =
                        IF inst'[i].status # inst[i].status THEN @ \cup {i} ELSE @])]
    /\ UNCHANGED <<instances, activeInstance, lock, instanceId, freePorts, upd, req, hist>>

\* lines 161-164: the id is taken first, then NewInstance reserves a port;
\* with no free port the error is returned
SNINew(c) ==
    /\ call[c].pc = "new"
    /\ instanceId' = instanceId + 1
    /\ IF freePorts = {}
       THEN /\ call' = [call EXCEPT ![c].pc = "idle", ![c].err = TRUE]
            /\ UNCHANGED <<inst, freePorts>>
       ELSE LET p == Reserve(freePorts) IN
            /\ freePorts' = freePorts \ {p}
            /\ inst' = [inst EXCEPT ![instanceId'] = NewInstance(p)]
            /\ call' = [call EXCEPT ![c].pc = "append", ![c].new = instanceId']
    /\ UNCHANGED <<instances, activeInstance, lock, upd, req, hist>>

\* line 166, first half: append reads a.instances
SNIAppendRead(c) ==
    /\ call[c].pc = "append"
    /\ call' = [call EXCEPT ![c].pc = "store", ![c].base = instances]
    /\ UNCHANGED <<instances, activeInstance, lock, instanceId, inst, freePorts, upd, req, hist>>

\* line 166, second half: the extended slice is stored; line 167: return nil
SNIAppendWrite(c) ==
    /\ call[c].pc = "store"
    /\ instances' = Append(call[c].base, call[c].new)
    /\ call' = [call EXCEPT ![c].pc = "idle", ![c].base = <<>>]
    /\ UNCHANGED <<activeInstance, lock, instanceId, inst, freePorts, upd, req, hist>>

\* ---- App.reserveInstance and App.ServeHTTP -------------------------------
\* A step ends before the goroutine's next access to memory that another
\* goroutine reads or writes; what it does to its own locals in between is
\* part of the step.

\* the 503 written, the request body left open
RespondNoActive_NoClose(rq) == [rq EXCEPT !.resp = 503]

\* lines 175-178: the recovered ErrNoActiveInstances
RespondNoActive(rq) == [rq EXCEPT !.resp = 503, !.closed = TRUE]

\* lines 184-186: the deferred Done()
DoneCalls(rq) == IF rq.inst # Nil THEN 1 ELSE 0

\* lines 173-197 after reserveInstance has returned into rq.inst, rq.err:
\* with an error panic(err), recovered as 503; a nil instance panics in
\* Hostname() and is recovered and logged; else the request goes to the proxy
Handler(rq) ==
    IF rq.err THEN [RespondNoActive(rq) EXCEPT !.pc = "done", !.dones = DoneCalls(rq)]
    ELSE IF rq.inst = Nil THEN [rq EXCEPT !.pc = "done"]
    ELSE [rq EXCEPT !.pc = "proxy", !.proxied = rq.inst]

\* lines 142-147: Lock(), the nil check; on nil ErrNoActiveInstances is
\* returned (the deferred Unlock runs) and ServeHTTP handles it
RCheck(r) ==
    /\ req[r].pc = "new"
    /\ lock = Free
    /\ IF activeInstance = Nil
       THEN /\ req' = [req EXCEPT ![r] = Handler([@ EXCEPT !.err = TRUE,
                                                             !.afterClear = hist.outage])]
            /\ UNCHANGED lock
       ELSE /\ req' = [req EXCEPT ![r].pc = "serve"]
            /\ lock' = Holder(r)
    /\ UNCHANGED <<instances, activeInstance, instanceId, inst, freePorts, upd, call, hist>>

\* line 149: a.activeInstance.Serve(), its result dropped; on a nil receiver the
\* dereference panics, the deferred Unlock runs and the panic leaves ServeHTTP
\* (its recover is not deferred yet)
RServe(r) ==
    /\ req[r].pc = "serve"
    /\ IF activeInstance = Nil
       THEN /\ req' = [req EXCEPT ![r].pc = "crashed"]
            /\ lock' = Free
            /\ UNCHANGED inst
       ELSE /\ inst' = Serve(inst, activeInstance)
            /\ req' = [req EXCEPT ![r].pc = "ret",
                                  ![r].served = activeInstance,
                                  ![r].servedStatus = inst[activeInstance].status,
                                  ![r].counted =
                                     inst'[activeInstance].inFlight
                                       - inst[activeInstance].inFlight]
            /\ UNCHANGED lock
    /\ UNCHANGED <<instances, activeInstance, instanceId, freePorts, upd, call, hist>>

\* line 151: return a.activeInstance, nil (the deferred Unlock runs); then
\* ServeHTTP up to the proxy call
RReturn(r) ==
    /\ req[r].pc = "ret"
    /\ req' = [req EXCEPT ![r] = Handler([@ EXCEPT !.inst = activeInstance])]
    /\ lock' = Free
    /\ UNCHANGED <<instances, activeInstance, instanceId, inst, freePorts, upd, call, hist>>

\* line 199 and the deferred function: the exchange ends (a response, a proxy
\* error answered by the proxy, or a panic that is recovered), then Done()
RFinish(r) ==
    /\ req[r].pc = "proxy"
    /\ \E o \in Outcomes :
         req' = [req EXCEPT ![r].pc = "done",
                            ![r].resp = CASE o = "ok" -> 200
                                          [] o = "proxyerror" -> 502
                                          [] OTHER -> 0,
                            ![r].dones = DoneCalls(req[r])]
    /\ inst' = IF DoneCalls(req[r]) = 1 THEN Done(inst, req[r].inst) ELSE inst
    /\ UNCHANGED <<instances, activeInstance, lock, instanceId, freePorts, upd, call, hist>>

\* ---- the environment -------------------------------------------------------
\* the child of an instance exits (on its own, on the stop signal, or killed)
ChildExit(i) ==
    /\ inst[i].alive
    /\ inst' = [inst EXCEPT ![i].alive = FALSE]
    /\ UNCHANGED <<instances, activeInstance, lock, instanceId, freePorts, upd, call, req, hist>>

\* the stop-timeout of a Stopping instance expires with the child still alive:
\* the child is force-killed
ForceKill(i) ==
    /\ inst[i].status = InstanceStatusStopping
    /\ inst[i].alive
    /\ inst' = [inst EXCEPT ![i].alive = FALSE,
                             ![i].killed = IF inst[i].inFlight > 0 THEN "inflight"
                                           ELSE "drained"]
    /\ UNCHANGED <<instances, activeInstance, lock, instanceId, freePorts, upd, call, req, hist>>

Next ==
    \/ UTick \/ UUpdate \/ UBranch \/ USwap \/ UStop
    \/ \E c \in Callers :
         SNIStart(c) \/ SNICheck(c) \/ SNIStop(c) \/ SNINew(c)
           \/ SNIAppendRead(c) \/ SNIAppendWrite(c)
    \/ \E r \in Requests : RCheck(r) \/ RServe(r) \/ RReturn(r) \/ RFinish(r)
    \/ \E i \in Ids : ChildExit(i) \/ ForceKill(i)

Spec == Init /\ [][Next]_vars

\* ---- the updater under fair scheduling -------------------------------------
\* The App with its updater, its StartNewInstance callers, the children and one
\* ServeHTTP goroutine contending for activeInstanceLock.
FirstRequest == CHOOSE r \in Requests : \A q \in Requests : r <= q

PromotionNext ==
    \/ UTick \/ UUpdate \/ UBranch \/ USwap \/ UStop
    \/ \E c \in Callers :
         SNIStart(c) \/ SNICheck(c) \/ SNIStop(c) \/ SNINew(c)
           \/ SNIAppendRead(c) \/ SNIAppendWrite(c)
    \/ RCheck(FirstRequest) \/ RServe(FirstRequest)
    \/ RReturn(FirstRequest) \/ RFinish(FirstRequest)
    \/ \E i \in Ids : ChildExit(i) \/ ForceKill(i)

\* The updater goroutine is always scheduled again (lines 118-137 loop on the
\* ticker), and a goroutine inside reserveInstance runs on to its deferred
\* Unlock (lines 142-151).
UpdaterFairness ==
    /\ WF_vars(UTick) /\ WF_vars(UUpdate) /\ WF_vars(UBranch)
    /\ WF_vars(USwap) /\ WF_vars(UStop)

PromotionSpec ==
    /\ Init /\ [][PromotionNext]_vars
    /\ UpdaterFairness
    /\ WF_vars(RServe(FirstRequest)) /\ WF_vars(RReturn(FirstRequest))

\* ---- the restart process without client traffic ----------------------------
\* README "Restart process": one operator calls StartNewInstance, first to
\* start the application and then to restart it; no request arrives; a child
\* exits only on the stop signal or when it is force-killed.
RestartCaller == CHOOSE c \in Callers : TRUE
\* the old instance and the new one
RestartInstances == 2

RestartNext ==
    \/ UTick \/ UUpdate \/ UBranch \/ USwap \/ UStop
    \/ instanceId < RestartInstances /\ SNIStart(RestartCaller)
    \/ SNICheck(RestartCaller) \/ SNIStop(RestartCaller) \/ SNINew(RestartCaller)
    \/ SNIAppendRead(RestartCaller) \/ SNIAppendWrite(RestartCaller)
    \/ \E i \in Ids : (inst[i].signalled /\ ChildExit(i)) \/ ForceKill(i)

\* the updater is scheduled on every tick, and the stop-timeout of a Stopping
\* instance whose child is alive expires
RestartSpec ==
    /\ Init /\ [][RestartNext]_vars
    /\ UpdaterFairness
    /\ \A i \in Ids : WF_vars(ForceKill(i))

TypeOK ==
    /\ activeInstance \in Ids \cup {Nil}
    /\ lock \in {Free, Updater} \cup {Holder(r) : r \in Requests}
    /\ instanceId \in 0..MaxInstances
    /\ freePorts \subseteq Ports

\* ---- observations used by the properties ---------------------------------
\* requests that have left reserveInstance
Returned(r) == req[r].pc \in {"proxy", "done"}
\* requests whose ServeHTTP is over
Over(r) == req[r].pc \in {"done", "crashed"}
\* requests on which Serve() ran on instance i and whose ServeHTTP is not over
InProgress(i) == {r \in Requests : req[r].served = i /\ ~Over(r)}
Created == {i \in Ids : inst[i].status # InstanceStatusNone}
ServingNow == {i \in Ids : inst[i].status = InstanceStatusServing}
\* the updater has just got Serving from UpdateStatus() on instance i
FoundServing(i) ==
    /\ upd.pc = "branch" /\ upd.snap[upd.idx] = i
    /\ upd.status = InstanceStatusServing

\* C1 (as claimed): an admission ends either with ErrNoActiveInstances and no
\* inFlight incremented, or with a non-nil instance that was the active one
\* when Serve() ran and whose inFlight, and no other, went up by exactly one.
C1_AdmissionAtomic ==
    \A r \in Requests :
        /\ req[r].pc # "crashed"
        /\ Returned(r) =>
              \/ req[r].err /\ req[r].inst = Nil /\ req[r].served = Nil
              \/ /\ ~req[r].err
                 /\ req[r].inst # Nil
                 /\ req[r].served = req[r].inst
                 /\ req[r].counted = 1

\* C2 (as claimed): at most one instance is Serving.
C2_AtMostOneServing == Cardinality(ServingNow) <= 1

\* C3 (as claimed): a non-nil activeInstance is Serving.
C3_ActiveIsServing ==
    activeInstance # Nil => inst[activeInstance].status = InstanceStatusServing

\* C4 (as claimed): a request is proxied to an instance only if that instance
\* was Serving when reserveInstance called Serve() on it.
C4_RoutedOnlyToServing ==
    \A r \in Requests :
        req[r].proxied # Nil =>
            /\ req[r].served = req[r].proxied
            /\ req[r].servedStatus = InstanceStatusServing

\* C5 (as claimed): when ServeHTTP is over, Done() has run exactly once on the
\* instance Serve() ran on, and on no instance if Serve() ran on none.
C5_DoneExactlyOnce ==
    \A r \in Requests :
        Over(r) =>
            /\ req[r].served # Nil => req[r].dones = 1 /\ req[r].inst = req[r].served
            /\ req[r].served = Nil => req[r].dones = 0

\* C6 (as claimed): inFlight of an instance equals the number of requests
\* admitted against it that are not over yet; hence it is never negative.
C6_InFlightCountsRequests ==
    \A i \in Ids :
        /\ inst[i].inFlight = Cardinality(InProgress(i))
        /\ inst[i].inFlight >= 0

\* The Stop() steps: the updater's on the prior active, StartNewInstance's on
\* an instance it saw Starting.
UpdaterStops(i) == upd.pc = "stop" /\ upd' # upd /\ upd.cur = i
CallerStops(i) ==
    \E c \in Callers :
        call[c].pc = "stop" /\ call'[c] # call[c] /\ call[c].snap[call[c].idx] = i

\* C7 (as claimed): Stop() runs on an instance only when it is not in the
\* activeInstance slot; and once Stop() has run on it, no Serve() is performed
\* on it and its inFlight never increases.
C7_DrainCorrect ==
    [][\A i \in Ids :
          /\ (UpdaterStops(i) \/ CallerStops(i)) => activeInstance # i
          /\ inst[i].stops = 1 =>
                /\ inst'[i].inFlight <= inst[i].inFlight
                /\ \A r \in Requests :
                      req[r].pc = "serve" /\ req'[r].pc = "ret" => req'[r].served # i
      ]_vars

\* C8: a request admitted while activeInstance is nil is answered 503 with its
\* body closed, is not proxied, and neither Serve() nor Done() runs for it: the
\* instances are left as they were.
C8_NoActiveGives503 ==
    [][\A r \in Requests :
          (req[r].pc = "new" /\ req'[r].pc # "new" /\ activeInstance = Nil) =>
              /\ req'[r].pc = "done"
              /\ req'[r].resp = 503
              /\ req'[r].closed
              /\ req'[r].proxied = Nil
              /\ req'[r].served = Nil
              /\ req'[r].dones = 0
              /\ inst' = inst
      ]_vars

C8_Witness ==
    \E r \in Requests :
        req[r].pc = "done" /\ req[r].err /\ req[r].resp = 503 /\ Created # {}

\* C9 (as claimed): after the clearing caused by the exit of the active
\* instance, the outage ends only with the promotion of an instance that a
\* later StartNewInstance created.
C9_OutageEndsWithLaterInstance ==
    [][(hist.outage /\ ~hist'.outage) => activeInstance' > hist.nextId]_vars

\* C9 (amended): when UpdateStatus() has returned Exited for the active
\* instance the updater clears activeInstance; from then on the slot stays nil
\* and every admitted request gets 503, until the updater promotes some
\* instance it has seen Serving, whenever that instance was created.
C9_OutageUntilPromotion ==
    /\ [](hist.outage => activeInstance = Nil)
    /\ [][/\ (upd.pc = "branch" /\ upd' # upd /\ upd.status = InstanceStatusExited
               /\ upd.snap[upd.idx] = activeInstance)
             => (activeInstance' = Nil /\ hist'.outage)
          /\ (hist.outage /\ ~hist'.outage)
             => (upd.pc = "swap" /\ upd.status = InstanceStatusServing
                   /\ activeInstance' = upd.snap[upd.idx])
          /\ \A r \in Requests :
                (hist.outage /\ req[r].pc = "new" /\ req'[r].pc # "new")
                    => req'[r].resp = 503
         ]_vars

C9_Witness ==
    /\ hist.outage
    /\ \E i \in Ids : inst[i].status = InstanceStatusExited
    /\ \E r \in Requests : req[r].afterClear /\ req[r].resp = 503

\* C10 (as claimed): a StartNewInstance that returns the port-exhaustion error
\* has changed the status of no existing instance.
C10_ExhaustionLeavesInstances ==
    \A c \in Callers :
        (call[c].pc = "idle" /\ call[c].err) => call[c].stopped = {}

\* instances a StartNewInstance call has moved out of Starting by its Stop()
Aborted == UNION {call[c].stopped : c \in Callers}
\* the instances in the list
Listed == {instances[k] : k \in 1..Len(instances)}

\* C11 (as claimed): an instance that StartNewInstance has stopped while it
\* was pending is not promoted to activeInstance afterwards and is not Serving.
C11_AbortedNeverPromoted ==
    [][\A i \in Aborted :
          /\ inst[i].status # InstanceStatusServing
          /\ activeInstance # i => activeInstance' # i
      ]_vars

\* C12 (as claimed): the ids in the instances list are strictly increasing in
\* list order (hence unique), concurrent StartNewInstance calls included.
C12_IdsIncreasing ==
    \A j, k \in 1..Len(instances) : j < k => instances[j] < instances[k]

\* C17 (as claimed): activeInstance is written only by a goroutine holding
\* activeInstanceLock, so it does not change while reserveInstance holds it.
C17_WritesUnderLock ==
    [][activeInstance' # activeInstance =>
          /\ lock = Updater
          /\ \A r \in Requests : lock # Holder(r)
      ]_vars

\* C18 (as claimed): when UpdateStatus() returned Exited for an instance that
\* is not the active one, the updater leaves activeInstance unchanged.
C18_ExitedInactiveLeavesActive ==
    [][(upd.pc = "branch" /\ upd' # upd /\ upd.status = InstanceStatusExited
          /\ upd.snap[upd.idx] # activeInstance)
        => activeInstance' = activeInstance
      ]_vars

\* C19 (as claimed): an instance that a returned StartNewInstance call created
\* is in the instances list.
C19_CreatedIsListed ==
    \A c \in Callers :
        (call[c].pc = "idle" /\ call[c].new # Nil) => call[c].new \in Listed

\* C13: the port of an instance has been released exactly once if the instance
\* is in a terminal status and never otherwise; the port of an instance that is
\* Starting, Serving or Stopping is not in the pool's free set.
C13_PortReleasedOnceWhenTerminal ==
    \A i \in Created :
        /\ inst[i].released <= 1
        /\ inst[i].released = 1 <=> inst[i].status \in Terminal
        /\ inst[i].status \notin Terminal =>
              inst[i].released = 0 /\ inst[i].port \notin freePorts

\* C13: an instance is terminal, its port was handed back and reserved again by
\* a later instance that is Serving, and the updater is visiting the terminal
\* instance once more.
C13_Witness ==
    \E i, j \in Created :
        /\ inst[i].status \in Terminal /\ inst[i].released = 1
        /\ inst[j].status = InstanceStatusServing /\ inst[j].port = inst[i].port
        /\ upd.pc = "branch" /\ upd.snap[upd.idx] = i

\* C15 (as claimed): a displaced instance's child gets the stop signal only in
\* a step that leaves inFlight at zero, and by then every request that was
\* admitted against the instance and counted by Serve() is over.
C15_SignalAfterAdmittedComplete ==
    [][\A i \in Ids :
          (~inst[i].signalled /\ inst'[i].signalled /\ activeInstance \notin {Nil, i})
          => /\ inst'[i].inFlight = 0
             /\ \A r \in Requests :
                   (req[r].served = i /\ req[r].counted = 1)
                   => req'[r].pc \in {"done", "crashed"}
      ]_vars

C20_PromotionLiveness ==
    /\ \A i \in Ids :
          /\ FoundServing(i) ~>
                (activeInstance = i \/ inst[i].status # InstanceStatusServing)
          /\ (upd.pc = "stop" /\ upd.cur = i) ~> (inst[i].stops = 1)
    /\ [][/\ (upd.pc = "swap" /\ upd' # upd) => upd.snap[upd.idx] # activeInstance
          /\ \A i \in Ids : UpdaterStops(i) => activeInstance # i
        ]_vars

\* C20: instance i displaced instance j, j got Stop() from the updater, and a
\* later pass finds i Serving while it is already in the slot.
C20_Witness ==
    \E i, j \in Ids :
        /\ i # j
        /\ activeInstance = i /\ FoundServing(i)
        /\ inst[i].status = InstanceStatusServing
        /\ inst[j].stops = 1 /\ j \notin Aborted

\* ports reserved and not handed back
HeldPorts == {inst[i].port : i \in {j \in Created : inst[j].released = 0}}

\* instance a is active and Serving, and the new instance b has just passed
\* its probe; they hold one port each
Restarting(a, b) ==
    /\ a # b
    /\ activeInstance = a /\ inst[a].status = InstanceStatusServing
    /\ FoundServing(b) /\ inst[b].status = InstanceStatusServing
    /\ HeldPorts = {inst[a].port, inst[b].port}

\* b has taken over from a, and a's port is back in the pool
Restarted(a, b) ==
    /\ activeInstance = b /\ inst[b].status = InstanceStatusServing
    /\ inst[a].status \in Terminal
    /\ inst[a].released = 1
    /\ inst[a].port \in freePorts
    /\ HeldPorts = {inst[b].port}

\* C14: with no client traffic, once the active instance a is Serving and the
\* new instance b has passed its probe, the updater under fair scheduling
\* reaches a state where b is Serving and active, a is terminal, a's port has
\* been released, and one port is held, as before the restart.
C14_RestartCompletes ==
    \A a, b \in Ids : Restarting(a, b) ~> Restarted(a, b)

\* C14: the restart has completed: a was displaced by b and stopped by the
\* updater, not aborted by StartNewInstance, and its port is free again.
C14_Witness ==
    \E a, b \in Ids :
        a # b /\ Restarted(a, b) /\ inst[a].stops = 1 /\ a \notin Aborted

====
